---------------------------- MODULE Spec2Model ----------------------------
(***************************************************************************)
(* Forsee: the prediction and chat gateways (backend/server.js), the auth  *)
(* provider (AuthProvider, second half of backend/server.js) and the asset *)
(* directory (src/context/DashboardContext.tsx).                           *)
(*                                                                         *)
(* The four components share no state, so each has its own specification  *)
(* (SpecPredict, SpecChat, SpecAuth, SpecAssets) over the module's         *)
(* variables; a specification leaves the other components' variables at    *)
(* their initial values.                                                   *)
(***************************************************************************)
EXTENDS Integers, Sequences, FiniteSets, TLC

VARIABLES
    \* ---- POST /api/predict (one request) ----
    pPc,        \* "idle" | "awaiting" (generateContent in flight) | "done"
    pReq,       \* req.body: [systemInfo, inputs], JavaScript values
    pPrompt,    \* what was sent to the model (<<>> before the call)
    pCalls,     \* number of model.generateContent invocations
    pOutcome,   \* what the provider did: [kind, tokens, payload, message]
    pRes,       \* the response: [status, body]; status 0 = nothing sent yet
    \* ---- POST /api/chat (one request) ----
    cPc,        \* "idle" | "awaiting" (sendMessage in flight) | "done"
    cReq,       \* req.body: [message, history]
    cSession,   \* the history the chat session was started with
    cCalls,     \* number of chat.sendMessage invocations
    cError,     \* the error caught: [thrown, hasMessage, message]
    cRes,       \* the response: [status, body]
    cSent,      \* number of responses sent
    \* ---- AuthProvider ----
    fbUser,     \* the identity provider's current user (a uid, or NoUid)
    authEvents, \* auth-state changes not yet delivered to the listener
    user,       \* useState user: a User record, or NoUser
    userRole,   \* useState userRole: a role, or NoRole for null
    pendingRequest, \* useState pendingRequest
    isLoading,  \* useState isLoading
    localStorage,   \* the browser's local storage: key -> string
    roleLog,    \* history: per uid, the role setRole stored last for it
    authLast,   \* history: the operation that ran last
    \* ---- DashboardProvider ----
    token,      \* local storage's forsee_access_token: TRUE when there is one
    devices,    \* useState devices
    store,      \* the assets resource behind /assets/, in server order
    nextId,     \* the id the store gives the next asset
    fetchPc,    \* fetchAssets: "mount" | "requested" | "replied" | "done"
    getReply,   \* the reply to GET /assets/: [ok, data]
    gets,       \* number of GET /assets/ requests issued
    calls,      \* number of addDevice and removeDevice calls so far
    inflight,   \* the addDevice and removeDevice calls awaiting their request
    kept        \* history: ids added by a completed addDevice, not removed since

predictVars == <<pPc, pReq, pPrompt, pCalls, pOutcome, pRes>>
chatVars    == <<cPc, cReq, cSession, cCalls, cError, cRes, cSent>>
authVars    == <<fbUser, authEvents, user, userRole, pendingRequest, isLoading,
                 localStorage, roleLog, authLast>>
assetVars   == <<token, devices, store, nextId, fetchPc, getReply, gets, calls, inflight,
                 kept>>
vars        == <<predictVars, chatVars, authVars, assetVars>>
notPredict  == <<chatVars, authVars, assetVars>>
notChat     == <<predictVars, authVars, assetVars>>
notAuth     == <<predictVars, chatVars, assetVars>>
notAssets   == <<predictVars, chatVars, authVars>>

(***************************************************************************)
(* JavaScript values, tagged.  v is the payload of the tag: an integer, a  *)
(* string, a boolean, a function from keys to values (object) or a         *)
(* sequence of values (array).                                             *)
(***************************************************************************)
Undefined == [t |-> "undefined", v |-> 0]
Null      == [t |-> "null", v |-> 0]
NaN       == [t |-> "NaN", v |-> 0]
Num(n)    == [t |-> "number", v |-> n]
Str(s)    == [t |-> "string", v |-> s]
Bool(b)   == [t |-> "boolean", v |-> b]
Obj(f)    == [t |-> "object", v |-> f]
Arr(s)    == [t |-> "array", v |-> s]

\* ToBoolean: what a || b tests.
Truthy(x) ==
    CASE x.t \in {"undefined", "null", "NaN"} -> FALSE
      [] x.t = "number"  -> x.v # 0
      [] x.t = "string"  -> x.v # ""
      [] x.t = "boolean" -> x.v
      [] OTHER           -> TRUE

\* a || b
Or(a, b) == IF Truthy(a) THEN a ELSE b

\* A property read p.k throws a TypeError exactly when p is null or undefined.
Nullish(p) == p.t \in {"undefined", "null"}

\* p.k for a non-nullish p: an own property, else undefined.
Get(p, k) == IF p.t = "object" /\ k \in DOMAIN p.v THEN p.v[k] ELSE Undefined

\* {...p}: the own enumerable properties of an object; none for null or a number.
Spread(p) == IF p.t = "object" THEN p.v ELSE <<>>

\* a + n and a - n for a number n, where a is a number or undefined.
JsAdd(a, n) == IF a.t = "number" THEN Num(a.v + n) ELSE NaN
JsSub(a, n) == IF a.t = "number" THEN Num(a.v - n) ELSE NaN

\* JSON.stringify as the client reads it back: a property whose value is
\* undefined is left out, NaN becomes null, undefined in an array becomes null.
RECURSIVE Serialize(_)
Serialize(x) ==
    CASE x.t = "NaN" -> Null
      [] x.t = "object" ->
            Obj([k \in {j \in DOMAIN x.v : x.v[j].t # "undefined"} |-> Serialize(x.v[k])])
      [] x.t = "array" ->
            Arr([i \in DOMAIN x.v |->
                    IF x.v[i].t = "undefined" THEN Null ELSE Serialize(x.v[i])])
      [] OTHER -> x


(***************************************************************************)
(* Bounds of the model.                                                    *)
(***************************************************************************)
\* Longest reply text of the model, in tokens.
MaxTokens == 3

\* All sequences over S of length at most n.
SeqsUpTo(S, n) == UNION {[1..k -> S] : k \in 0..n}

(***************************************************************************)
(* POST /api/predict                                                       *)
(***************************************************************************)
\* The reply text of the model is a sequence of tokens: the two code fences
\* the handler strips, white space, one token standing for a JSON value (its
\* value is the outcome's payload) and prose that is not JSON.
FenceJson == "<fence json>"
Fence     == "<fence>"
Ws        == " "
JsonTok   == "<json>"
Prose     == "I cannot analyze this."
Tokens    == {FenceJson, Fence, Ws, JsonTok, Prose}

OptionalFields == {"longTermProjection", "simulation", "failureCluster", "dataDrift"}

\* What the model may answer for each field of the prediction; Undefined
\* stands for "the key is not in the reply".
HealthIndexes   == {Undefined, Num(5), Num(100)}
FailureModes    == {Undefined, Str("Bearing wear")}
DriftFlags      == {Undefined, Bool(TRUE), Bool(FALSE)}
ProjectionsSent == {Undefined, Null, Arr(<<Obj([cycle |-> Num(0), health |-> Num(90)])>>)}
SimulationsSent == {Undefined, Bool(FALSE),
                    Obj([maintenanceNow |-> Obj([cost |-> Num(1)])])}
ClustersSent    == {Undefined, Num(0), Obj([id |-> Str("CL-7")])}
DriftsSent      == {Undefined, Str(""), Obj([detected |-> Bool(TRUE)])}

\* An object with the keys of f whose value is not Undefined.
Present(f) == Obj([k \in {j \in DOMAIN f : f[j].t # "undefined"} |-> f[k]])

ReplyObjects ==
    { Present([rul |-> Num(120), healthIndex |-> h, failureMode |-> m,
               driftDetected |-> d, longTermProjection |-> l, simulation |-> s,
               failureCluster |-> c, dataDrift |-> x]) :
        h \in HealthIndexes, m \in FailureModes, d \in DriftFlags,
        l \in ProjectionsSent, s \in SimulationsSent,
        c \in ClustersSent, x \in DriftsSent }

\* Every JSON value the reply text may denote: null, a bare number, an object.
Payloads == {Null, Num(7)} \cup ReplyObjects

SystemInfos == {Undefined, Null, Obj([name |-> Str("Pump 3"), id |-> Str("P-3")])}
InputsSent  == {Undefined, Obj([temperature |-> Num(90)])}

NoOutcome == [kind |-> "none", tokens |-> <<>>, payload |-> Null, message |-> ""]
NoResponse == [status |-> 0, body |-> Null]

\* How often token t occurs in text.
Count(text, t) == Cardinality({i \in DOMAIN text : text[i] = t})

\* String.prototype.trim on tokens: white space at both ends goes.
RECURSIVE Trim(_)
Trim(text) ==
    IF text = <<>> THEN text
    ELSE IF Head(text) = Ws THEN Trim(Tail(text))
    ELSE IF text[Len(text)] = Ws THEN Trim(SubSeq(text, 1, Len(text) - 1))
    ELSE text

\* server.js:72  the two replace() calls that drop the code fences, then trim()
StripFences(text) ==
    Trim(SelectSeq(SelectSeq(text, LAMBDA t : t # FenceJson), LAMBDA t : t # Fence))

\* server.js:74  JSON.parse(text) succeeds when the text is one JSON value.
Parses(text) == text = <<JsonTok>>

\* The projection with each health kept inside 0..100.
Clamp(x) == IF x.t # "number" THEN x ELSE Num(IF x.v < 0 THEN 0 ELSE IF x.v > 100 THEN 100 ELSE x.v)
DefaultProjectionClamped(prediction) ==
    Arr(<< Obj([cycle |-> Num(0),   health |-> Num(100)]),
           Obj([cycle |-> Num(25),  health |-> Clamp(JsAdd(Get(prediction, "healthIndex"), 5))]),
           Obj([cycle |-> Num(50),  health |-> Get(prediction, "healthIndex")]),
           Obj([cycle |-> Num(75),  health |-> Clamp(JsSub(Get(prediction, "healthIndex"), 10))]),
           Obj([cycle |-> Num(100), health |-> Clamp(JsSub(Get(prediction, "healthIndex"), 20))]) >>)

\* server.js:83-89
DefaultProjection(prediction) ==
    Arr(<< Obj([cycle |-> Num(0),   health |-> Num(100)]),
           Obj([cycle |-> Num(25),  health |-> JsAdd(Get(prediction, "healthIndex"), 5)]),
           Obj([cycle |-> Num(50),  health |-> Get(prediction, "healthIndex")]),
           Obj([cycle |-> Num(75),  health |-> JsSub(Get(prediction, "healthIndex"), 10)]),
           Obj([cycle |-> Num(100), health |-> JsSub(Get(prediction, "healthIndex"), 20)]) >>)

\* server.js:90-93
DefaultSimulation ==
    Obj([maintenanceNow   |-> Obj([riskReduction |-> Num(85), healthImprovement |-> Num(15),
                                   cost |-> Num(4500)]),
         maintenanceLater |-> Obj([riskReduction |-> Num(10), healthImprovement |-> Num(2),
                                   cost |-> Num(28000)])])

\* server.js:94
DefaultCluster(prediction) ==
    Obj([id |-> Str("CL-GEN"), label |-> Get(prediction, "failureMode"),
         description |-> Str("AI Detected Pattern")])

\* server.js:95
DefaultDrift(prediction) ==
    Obj([detected |-> Get(prediction, "driftDetected"), severity |-> Str("Medium"),
         explanation |-> Str("AI analysis of input distribution.")])

\* server.js:83,90,94,95  prediction.<field> || <default>
FillField(prediction, k) ==
    CASE k = "longTermProjection" -> Or(Get(prediction, k), DefaultProjection(prediction))
      [] k = "simulation"         -> Or(Get(prediction, k), DefaultSimulation)
      [] k = "failureCluster"     -> Or(Get(prediction, k), DefaultCluster(prediction))
      [] k = "dataDrift"          -> Or(Get(prediction, k), DefaultDrift(prediction))

\* server.js:80-96  { ...prediction, longTermProjection: ..., ... }
EnhancedPrediction(prediction) ==
    Obj([k \in DOMAIN Spread(prediction) \cup OptionalFields |->
            IF k \in OptionalFields THEN FillField(prediction, k)
            ELSE Spread(prediction)[k]])

\* server.js:98  res.json(enhancedPrediction)
SuccessResponse(prediction) ==
    [status |-> 200, body |-> Serialize(EnhancedPrediction(prediction))]

\* server.js:106-110
Fallback ==
    Obj([healthIndex |-> Num(50), riskLevel |-> Str("MEDIUM"),
         action |-> Str("System Error - Check Backend Logs")])

\* server.js:100-112  the catch block
ErrorResponse(message) ==
    [status |-> 500,
     body |-> Serialize(Obj([error |-> Str("Failed to generate prediction"),
                             details |-> Str(message), fallback |-> Fallback]))]

\* The handler answering a reply it cannot parse with the fallback as a prediction.
RespondToTextWithFallback(tokens, payload) ==
    IF ~Parses(StripFences(tokens)) THEN [status |-> 200, body |-> Serialize(Fallback)]
    ELSE IF Nullish(payload) THEN ErrorResponse("Cannot read properties of null")
    ELSE SuccessResponse(payload)

\* server.js:74-98  from the reply text to the response
RespondToText(tokens, payload) ==
    IF ~Parses(StripFences(tokens)) THEN ErrorResponse("Unexpected token")
    ELSE IF Nullish(payload) THEN ErrorResponse("Cannot read properties of null")
    ELSE SuccessResponse(payload)

\* server.js:54-67  the request arrives; the handler runs to its first await.
\* The log line reads systemInfo.name, which throws for a missing systemInfo.
PredictReceive ==
    /\ pPc = "idle"
    /\ IF Nullish(pReq.systemInfo)
       THEN /\ pRes' = ErrorResponse("Cannot read properties of undefined")
            /\ pPc' = "done"
            /\ UNCHANGED <<pPrompt, pCalls>>
       ELSE /\ pPrompt' = <<"SYSTEM_PROMPT",
                            [system |-> Serialize(pReq.systemInfo),
                             inputs |-> Serialize(pReq.inputs)]>>
            /\ pCalls' = pCalls + 1
            /\ pPc' = "awaiting"
            /\ UNCHANGED pRes
    /\ UNCHANGED <<pReq, pOutcome>>
    /\ UNCHANGED notPredict

\* server.js:67  generateContent rejects (network, credentials, quota).
PredictModelRejects ==
    /\ pPc = "awaiting"
    /\ \E m \in {"fetch failed", "API key not valid"} :
         /\ pOutcome' = [kind |-> "rejected", tokens |-> <<>>, payload |-> Null, message |-> m]
         /\ pRes' = ErrorResponse(m)
    /\ pPc' = "done"
    /\ UNCHANGED <<pReq, pPrompt, pCalls>>
    /\ UNCHANGED notPredict

\* server.js:69  response.text() throws (the provider blocked the reply).
PredictTextThrows ==
    /\ pPc = "awaiting"
    /\ pOutcome' = [kind |-> "blocked", tokens |-> <<>>, payload |-> Null,
                    message |-> "Response was blocked due to SAFETY"]
    /\ pRes' = ErrorResponse("Response was blocked due to SAFETY")
    /\ pPc' = "done"
    /\ UNCHANGED <<pReq, pPrompt, pCalls>>
    /\ UNCHANGED notPredict

\* server.js:68-98  the model answers with a text.
PredictModelReplies ==
    /\ pPc = "awaiting"
    /\ \E tokens \in SeqsUpTo(Tokens, MaxTokens) :
         \E payload \in (IF Count(tokens, JsonTok) = 1 THEN Payloads ELSE {Null}) :
            /\ pOutcome' = [kind |-> "text", tokens |-> tokens, payload |-> payload,
                            message |-> ""]
            /\ pRes' = RespondToText(tokens, payload)
    /\ pPc' = "done"
    /\ UNCHANGED <<pReq, pPrompt, pCalls>>
    /\ UNCHANGED notPredict

InitPredict ==
    /\ pPc = "idle"
    /\ pReq \in [systemInfo : SystemInfos, inputs : InputsSent]
    /\ pPrompt = <<>>
    /\ pCalls = 0
    /\ pOutcome = NoOutcome
    /\ pRes = NoResponse

NextPredict ==
    \/ PredictReceive
    \/ PredictModelRejects
    \/ PredictTextThrows
    \/ PredictModelReplies

(***************************************************************************)
(* POST /api/chat                                                          *)
(***************************************************************************)
\* Longest error message of the model, in words.
MaxWords == 2

\* An error message is a sequence of words; includes() looks for one of them.
Words == {"API key", "SAFETY", "api key", "quota"}
Msg(words) == [t |-> "string", v |-> words]

ChatMessages  == {Undefined, Str("hello")}
ChatHistories == {Undefined, Arr(<<>>),
                  Arr(<<Obj([role |-> Str("user"), parts |-> Str("hi")])>>)}

\* What can be thrown: an Error with a message, or a value without one.
ChatErrors ==
    {[thrown |-> TRUE, hasMessage |-> TRUE, message |-> m] : m \in SeqsUpTo(Words, MaxWords)}
    \cup {[thrown |-> TRUE, hasMessage |-> FALSE, message |-> <<>>]}
NoError == [thrown |-> FALSE, hasMessage |-> FALSE, message |-> <<>>]

\* String.prototype.includes
Includes(message, word) == \E i \in DOMAIN message : message[i] = word

\* server.js:172,174  error.message?.includes(word): false for no message
MessageIncludes(error, word) == error.hasMessage /\ Includes(error.message, word)

\* The two tests of the classification in the other order.
ClassifyErrorSafetyFirst(error) ==
    IF MessageIncludes(error, "SAFETY") THEN "Response blocked by safety filters"
    ELSE IF MessageIncludes(error, "API key") THEN "Invalid API Key"
    ELSE "Failed to process chat message"

\* server.js:169-176
ClassifyError(error) ==
    IF MessageIncludes(error, "API key") THEN "Invalid API Key"
    ELSE IF MessageIncludes(error, "SAFETY") THEN "Response blocked by safety filters"
    ELSE "Failed to process chat message"

\* server.js:178
ChatErrorResponse(error) ==
    [status |-> 500,
     body |-> Serialize(Obj([error   |-> Str(ClassifyError(error)),
                             details |-> IF error.hasMessage THEN Msg(error.message)
                                         ELSE Undefined]))]

\* server.js:145-159  the request arrives; the session is started with
\* history || [] and the message is sent.
ChatReceive ==
    /\ cPc = "idle"
    /\ cSession' = Or(cReq.history, Arr(<<>>))
    /\ cCalls' = cCalls + 1
    /\ cPc' = "awaiting"
    /\ UNCHANGED <<cReq, cError, cRes, cSent>>
    /\ UNCHANGED notChat

\* server.js:159-163  the model answers; its text goes back verbatim.
ChatReplies ==
    /\ cPc = "awaiting"
    /\ \E text \in {"", "Check the bearing."} :
         cRes' = [status |-> 200, body |-> Serialize(Obj([response |-> Str(text)]))]
    /\ cSent' = cSent + 1
    /\ cPc' = "done"
    /\ UNCHANGED <<cReq, cSession, cCalls, cError>>
    /\ UNCHANGED notChat

\* server.js:165-179  sendMessage rejects or response.text() throws.
ChatFails ==
    /\ cPc = "awaiting"
    /\ \E error \in ChatErrors :
         /\ cError' = error
         /\ cRes' = ChatErrorResponse(error)
    /\ cSent' = cSent + 1
    /\ cPc' = "done"
    /\ UNCHANGED <<cReq, cSession, cCalls>>
    /\ UNCHANGED notChat

InitChat ==
    /\ cPc = "idle"
    /\ cReq \in [message : ChatMessages, history : ChatHistories]
    /\ cSession = Undefined
    /\ cCalls = 0
    /\ cError = NoError
    /\ cRes = NoResponse
    /\ cSent = 0

NextChat ==
    \/ ChatReceive
    \/ ChatReplies
    \/ ChatFails

(***************************************************************************)
(* AuthProvider                                                            *)
(***************************************************************************)
\* Most auth-state changes waiting for the listener at one time.
MaxEvents == 2

NoUid  == "none"
NoRole == "null"
Roles  == {"admin", "engineer", "viewer"}

\* The accounts of the identity provider (FirebaseUser: uid, displayName,
\* email with its part before the @, photoURL; "" for a missing one).
FbUsers ==
    {[uid |-> "u1", displayName |-> "", email |-> "ann@forsee.io", local |-> "ann",
      photoURL |-> ""],
     [uid |-> "u2", displayName |-> "Bob", email |-> "", local |-> "",
      photoURL |-> "/bob.png"]}
Uids == {f.uid : f \in FbUsers}
FbUserOf(uid) == CHOOSE f \in FbUsers : f.uid = uid

NoUser == [id |-> NoUid, name |-> "", email |-> "", avatarUrl |-> ""]

\* a || b on strings
OrStr(a, b) == IF a # "" THEN a ELSE b

\* server.js:241-246
mapUser(fb) ==
    [id |-> fb.uid,
     name |-> OrStr(fb.displayName, OrStr(fb.local, "User")),
     email |-> OrStr(fb.email, ""),
     avatarUrl |-> OrStr(fb.photoURL, "/avatar.png")]

\* The keys of local storage: the per-user role key and the generic one.
GenericRoleKey == <<"forsee_role">>

\* Every user's role under the one generic key.
RoleKeyShared(uid) == GenericRoleKey

\* server.js:257,295  the template forsee_role_${uid}
RoleKey(uid) == <<"forsee_role_", uid>>

\* localStorage.getItem: the stored string, or null
GetItem(storage, key) == IF key \in DOMAIN storage THEN storage[key] ELSE NoRole
\* localStorage.setItem
SetItem(storage, key, value) ==
    [k \in DOMAIN storage \cup {key} |-> IF k = key THEN value ELSE storage[k]]
\* localStorage.removeItem
RemoveItem(storage, key) == [k \in DOMAIN storage \ {key} |-> storage[k]]

\* server.js:258  storedRole || 'viewer'
RestoredRole(storage, uid) ==
    IF GetItem(storage, RoleKey(uid)) # NoRole THEN GetItem(storage, RoleKey(uid))
    ELSE "viewer"

\* server.js:269-284  login, signup or loginWithGoogle resolves: the provider
\* has a new current user and will notify the listener.
SignIn ==
    /\ Len(authEvents) < MaxEvents
    /\ \E uid \in Uids :
         /\ fbUser' = uid
         /\ authEvents' = Append(authEvents, uid)
    /\ authLast' = "SignIn"
    /\ UNCHANGED <<user, userRole, pendingRequest, isLoading, localStorage, roleLog>>
    /\ UNCHANGED notAuth

\* server.js:286-290
Logout ==
    /\ Len(authEvents) < MaxEvents
    /\ fbUser' = NoUid
    /\ authEvents' = Append(authEvents, NoUid)
    /\ localStorage' = RemoveItem(localStorage, GenericRoleKey)
    /\ authLast' = "Logout"
    /\ UNCHANGED <<user, userRole, pendingRequest, isLoading, roleLog>>
    /\ UNCHANGED notAuth

\* server.js:250-264  the listener of onAuthStateChanged
AuthStateChanged ==
    /\ authEvents # <<>>
    /\ IF Head(authEvents) # NoUid
       THEN /\ user' = mapUser(FbUserOf(Head(authEvents)))
            /\ userRole' = RestoredRole(localStorage, Head(authEvents))
       ELSE /\ user' = NoUser
            /\ userRole' = NoRole
    /\ isLoading' = FALSE
    /\ authEvents' = Tail(authEvents)
    /\ authLast' = "AuthStateChanged"
    /\ UNCHANGED <<fbUser, pendingRequest, localStorage, roleLog>>
    /\ UNCHANGED notAuth

\* server.js:292-297
SetRole ==
    /\ \E role \in Roles \cup {NoRole} :
         /\ userRole' = role
         /\ IF user # NoUser /\ role # NoRole
            THEN /\ localStorage' = SetItem(localStorage, RoleKey(user.id), role)
                 /\ roleLog' = [roleLog EXCEPT ![user.id] = role]
            ELSE UNCHANGED <<localStorage, roleLog>>
    /\ authLast' = "SetRole"
    /\ UNCHANGED <<fbUser, authEvents, user, pendingRequest, isLoading>>
    /\ UNCHANGED notAuth

\* server.js:299-304
RequestRole ==
    /\ \E role \in Roles \cup {NoRole} :
         IF user = NoUser THEN UNCHANGED pendingRequest
         ELSE pendingRequest' = role
    /\ authLast' = "RequestRole"
    /\ UNCHANGED <<fbUser, authEvents, user, userRole, isLoading, localStorage, roleLog>>
    /\ UNCHANGED notAuth

\* server.js:235,318  setUser, the state setter the context hands out
SetUser ==
    /\ \E u \in {mapUser(f) : f \in FbUsers} \cup {NoUser} : user' = u
    /\ authLast' = "SetUser"
    /\ UNCHANGED <<fbUser, authEvents, userRole, pendingRequest, isLoading, localStorage,
                   roleLog>>
    /\ UNCHANGED notAuth

\* server.js:311
isAuthenticated == user # NoUser

\* server.js:235-238 and the listener's first notification (the session the
\* provider kept, if any); the generic role key may be left from before.
InitAuth ==
    /\ fbUser \in Uids \cup {NoUid}
    /\ authEvents = <<fbUser>>
    /\ user = NoUser
    /\ userRole = NoRole
    /\ pendingRequest = NoRole
    /\ isLoading = TRUE
    /\ localStorage \in {<<>>, [k \in {GenericRoleKey} |-> "admin"]}
    /\ roleLog = [u \in Uids |-> NoRole]
    /\ authLast = "mount"

NextAuth ==
    \/ SignIn
    \/ Logout
    \/ AuthStateChanged
    \/ SetRole
    \/ RequestRole
    \/ SetUser

(***************************************************************************)
(* DashboardProvider                                                       *)
(***************************************************************************)
\* Most assets in the store when the dashboard mounts.
MaxAssets == 2
\* Most addDevice and removeDevice calls of a run.
MaxCalls == 2

\* The type of an asset is a string, here its words; undefined when the
\* asset has none.
NoType == <<"undefined">>

\* String.prototype.toLowerCase, word by word
LowerWord(w) ==
    CASE w = "Gas" -> "gas"
      [] w = "Turbine" -> "turbine"
      [] w = "CONTROL" -> "control"
      [] w = "Mobile" -> "mobile"
      [] OTHER -> w
ToLowerCase(type) == [i \in DOMAIN type |-> LowerWord(type[i])]

\* DashboardContext.tsx:103-110
getIconForAssetType(type) ==
    LET lowerType == IF type = NoType THEN <<>> ELSE ToLowerCase(type)
    IN  IF Includes(lowerType, "turbine") THEN "Monitor"
        ELSE IF Includes(lowerType, "control") THEN "Cpu"
        ELSE IF Includes(lowerType, "tablet") \/ Includes(lowerType, "mobile")
             THEN "Smartphone"
        ELSE IF Includes(lowerType, "monitor") \/ Includes(lowerType, "computer")
             THEN "Laptop"
        ELSE "Activity"

\* DashboardContext.tsx:12-17
defaultDevices ==
    << [id |-> Str("dev-01"), name |-> "Turbine A-11",   icon |-> "Monitor"],
       [id |-> Str("dev-02"), name |-> "Gen. Control",   icon |-> "Cpu"],
       [id |-> Str("dev-03"), name |-> "Field Tablet",   icon |-> "Smartphone"],
       [id |-> Str("dev-04"), name |-> "Engine Monitor", icon |-> "Laptop"] >>

\* The assets the store may hold at mount, in order: the first k of these.
KnownAssets ==
    << [id |-> Num(1), name |-> "Boiler",  type |-> <<"Gas", "Turbine">>],
       [id |-> Num(2), name |-> "Mixer",   type |-> NoType],
       [id |-> Num(3), name |-> "Press",   type |-> <<"CONTROL">>],
       [id |-> Num(4), name |-> "Scanner", type |-> <<"Mobile", "custom">>] >>

NoReply == [ok |-> FALSE, data |-> <<>>]
NoAsset == [id |-> Null, name |-> ""]

\* DashboardContext.tsx:43-47
MapAssets(assets) ==
    [i \in DOMAIN assets |->
        [id |-> assets[i].id, name |-> assets[i].name,
         icon |-> getIconForAssetType(assets[i].type)]]

\* fetchAssets showing whatever the store returned, an empty list included.
DevicesFetchedNoFallback(reply) ==
    IF reply.ok THEN MapAssets(reply.data) ELSE defaultDevices

\* DashboardContext.tsx:40-57  what fetchAssets sets after the GET
DevicesFetched(reply) ==
    IF reply.ok
    THEN IF Len(MapAssets(reply.data)) > 0 THEN MapAssets(reply.data) ELSE defaultDevices
    ELSE defaultDevices

\* addDevice keeping the name it was called with.
DeviceAddedAsRequested(asset, newDevice) ==
    [id |-> asset.id, name |-> newDevice.name,
     icon |-> IF newDevice.icon # "undefined" THEN newDevice.icon ELSE "Activity"]

\* DashboardContext.tsx:72-77
DeviceAdded(asset, newDevice) ==
    [id |-> asset.id, name |-> asset.name,
     icon |-> IF newDevice.icon # "undefined" THEN newDevice.icon ELSE "Activity"]

\* DashboardContext.tsx:89  prev.filter(d => d.id !== id)
WithoutId(prev, id) == SelectSeq(prev, LAMBDA d : d.id # id)

Ids(devs) == {devs[i].id : i \in DOMAIN devs}

\* DashboardContext.tsx:30-40,60  the effect runs fetchAssets: without a
\* token the defaults are set at once, else GET /assets/ is issued.
FetchStart ==
    /\ fetchPc = "mount"
    /\ IF ~token
       THEN /\ devices' = defaultDevices
            /\ fetchPc' = "done"
            /\ UNCHANGED gets
       ELSE /\ gets' = gets + 1
            /\ fetchPc' = "requested"
            /\ UNCHANGED devices
    /\ UNCHANGED <<token, store, nextId, getReply, calls, inflight, kept>>
    /\ UNCHANGED notAssets

\* The store answers the GET with its list of that moment, or the call fails.
StoreAnswersGet ==
    /\ fetchPc = "requested"
    /\ \E ok \in BOOLEAN :
         getReply' = [ok |-> ok, data |-> IF ok THEN store ELSE <<>>]
    /\ fetchPc' = "replied"
    /\ UNCHANGED <<token, devices, store, nextId, gets, calls, inflight, kept>>
    /\ UNCHANGED notAssets

\* DashboardContext.tsx:40-57  the GET resolves or rejects.
FetchResolve ==
    /\ fetchPc = "replied"
    /\ devices' = DevicesFetched(getReply)
    /\ fetchPc' = "done"
    /\ UNCHANGED <<token, store, nextId, getReply, gets, calls, inflight, kept>>
    /\ UNCHANGED notAssets

\* DashboardContext.tsx:63-70  addDevice issues POST /assets/.  (The effect
\* that starts fetchAssets runs after the first render, before any call.)
AddDevice ==
    /\ fetchPc # "mount"
    /\ calls < MaxCalls
    /\ \E icon \in {"undefined", "Cpu"} :
         inflight' = inflight \cup
            {[n |-> calls + 1, op |-> "add", phase |-> "sent", ok |-> FALSE,
              id |-> Null, name |-> "Pump", icon |-> icon, asset |-> NoAsset]}
    /\ calls' = calls + 1
    /\ UNCHANGED <<token, devices, store, nextId, fetchPc, getReply, gets, kept>>
    /\ UNCHANGED notAssets

\* The store creates the asset under a new id and a name of its choosing
\* (the one sent, or a normalised one), or the call fails.
StoreAnswersPost ==
    /\ \E c \in inflight :
         /\ c.op = "add" /\ c.phase = "sent"
         /\ \/ \E stored \in {c.name, "PUMP"} :
                 /\ store' = Append(store, [id |-> Num(nextId), name |-> stored,
                                            type |-> <<"custom">>])
                 /\ nextId' = nextId + 1
                 /\ inflight' = (inflight \ {c}) \cup
                       {[c EXCEPT !.phase = "replied", !.ok = TRUE,
                                  !.asset = [id |-> Num(nextId), name |-> stored]]}
            \/ /\ inflight' = (inflight \ {c}) \cup
                       {[c EXCEPT !.phase = "replied", !.ok = FALSE]}
               /\ UNCHANGED <<store, nextId>>
    /\ UNCHANGED <<token, devices, fetchPc, getReply, gets, calls, kept>>
    /\ UNCHANGED notAssets

\* DashboardContext.tsx:72-83  the POST resolves or rejects.
AddResolve ==
    /\ \E c \in inflight :
         /\ c.op = "add" /\ c.phase = "replied"
         /\ inflight' = inflight \ {c}
         /\ IF c.ok
            THEN /\ devices' = Append(devices, DeviceAdded(c.asset,
                                                           [name |-> c.name, icon |-> c.icon]))
                 /\ kept' = kept \cup {c.asset.id}
            ELSE UNCHANGED <<devices, kept>>
    /\ UNCHANGED <<token, store, nextId, fetchPc, getReply, gets, calls>>
    /\ UNCHANGED notAssets

\* DashboardContext.tsx:86-88  removeDevice issues DELETE /assets/{id} for a
\* device on display.
RemoveDevice ==
    /\ fetchPc # "mount"
    /\ calls < MaxCalls
    /\ \E id \in Ids(devices) :
         inflight' = inflight \cup
            {[n |-> calls + 1, op |-> "remove", phase |-> "sent", ok |-> FALSE,
              id |-> id, name |-> "", icon |-> "undefined", asset |-> NoAsset]}
    /\ calls' = calls + 1
    /\ UNCHANGED <<token, devices, store, nextId, fetchPc, getReply, gets, kept>>
    /\ UNCHANGED notAssets

\* The store deletes the asset, or the call fails.
StoreAnswersDelete ==
    /\ \E c \in inflight :
         /\ c.op = "remove" /\ c.phase = "sent"
         /\ \/ /\ store' = SelectSeq(store, LAMBDA a : a.id # c.id)
               /\ inflight' = (inflight \ {c}) \cup
                       {[c EXCEPT !.phase = "replied", !.ok = TRUE]}
            \/ /\ inflight' = (inflight \ {c}) \cup
                       {[c EXCEPT !.phase = "replied", !.ok = FALSE]}
               /\ UNCHANGED store
    /\ UNCHANGED <<token, devices, nextId, fetchPc, getReply, gets, calls, kept>>
    /\ UNCHANGED notAssets

\* DashboardContext.tsx:88-92  the DELETE resolves or rejects.
RemoveResolve ==
    /\ \E c \in inflight :
         /\ c.op = "remove" /\ c.phase = "replied"
         /\ inflight' = inflight \ {c}
         /\ IF c.ok
            THEN /\ devices' = WithoutId(devices, c.id)
                 /\ kept' = kept \ {c.id}
            ELSE UNCHANGED <<devices, kept>>
    /\ UNCHANGED <<token, store, nextId, fetchPc, getReply, gets, calls>>
    /\ UNCHANGED notAssets

\* DashboardContext.tsx:28  devices starts empty; the store holds up to
\* MaxAssets assets.
InitAssets ==
    /\ token \in BOOLEAN
    /\ devices = <<>>
    /\ \E k \in 0..MaxAssets : store = SubSeq(KnownAssets, 1, k)
    /\ nextId = Len(KnownAssets) + 1
    /\ fetchPc = "mount"
    /\ getReply = NoReply
    /\ gets = 0
    /\ calls = 0
    /\ inflight = {}
    /\ kept = {}

NextAssets ==
    \/ FetchStart
    \/ StoreAnswersGet
    \/ FetchResolve
    \/ AddDevice
    \/ StoreAnswersPost
    \/ AddResolve
    \/ RemoveDevice
    \/ StoreAnswersDelete
    \/ RemoveResolve

(***************************************************************************)
(* Specifications: one per component; the other components are parked in   *)
(* a fixed state in which none of their actions is taken.                  *)
(***************************************************************************)
ParkedPredict ==
    /\ pPc = "idle"
    /\ pReq = [systemInfo |-> Undefined, inputs |-> Undefined]
    /\ pPrompt = <<>>
    /\ pCalls = 0
    /\ pOutcome = NoOutcome
    /\ pRes = NoResponse

ParkedChat ==
    /\ cPc = "idle"
    /\ cReq = [message |-> Undefined, history |-> Undefined]
    /\ cSession = Undefined
    /\ cCalls = 0
    /\ cError = NoError
    /\ cRes = NoResponse
    /\ cSent = 0

ParkedAuth ==
    /\ fbUser = NoUid
    /\ authEvents = <<NoUid>>
    /\ user = NoUser
    /\ userRole = NoRole
    /\ pendingRequest = NoRole
    /\ isLoading = TRUE
    /\ localStorage = <<>>
    /\ roleLog = [u \in Uids |-> NoRole]
    /\ authLast = "mount"

ParkedAssets ==
    /\ token = FALSE
    /\ devices = <<>>
    /\ store = <<>>
    /\ nextId = Len(KnownAssets) + 1
    /\ fetchPc = "mount"
    /\ getReply = NoReply
    /\ gets = 0
    /\ calls = 0
    /\ inflight = {}
    /\ kept = {}

PredictAlone == InitPredict /\ ParkedChat /\ ParkedAuth /\ ParkedAssets
ChatAlone    == InitChat /\ ParkedPredict /\ ParkedAuth /\ ParkedAssets
AuthAlone    == InitAuth /\ ParkedPredict /\ ParkedChat /\ ParkedAssets
AssetsAlone  == InitAssets /\ ParkedPredict /\ ParkedChat /\ ParkedAuth

SpecPredict == PredictAlone /\ [][NextPredict]_vars
SpecChat    == ChatAlone /\ [][NextChat]_vars
SpecAuth    == AuthAlone /\ [][NextAuth]_vars
SpecAssets  == AssetsAlone /\ [][NextAssets]_vars

(***************************************************************************)
(* Claims about POST /api/predict                                          *)
(***************************************************************************)
\* The request was answered after the model sent a text that parsed as a
\* JSON object.
RepliedWithObject ==
    /\ pPc = "done"
    /\ pOutcome.kind = "text"
    /\ Parses(StripFences(pOutcome.tokens))
    /\ pOutcome.payload.t = "object"

ReplyKeys == DOMAIN pOutcome.payload.v

\* The health an absent healthIndex leaves the arithmetic with: none (the
\* response carries null); for a number h, h + d.
ProjectedHealth(d) ==
    IF "healthIndex" \in ReplyKeys
    THEN Num(pOutcome.payload.v["healthIndex"].v + d)
    ELSE Null

\* C1: a reply that parses as a JSON object and has none of the four
\* optional fields is answered 200 with: the projection at cycles 0, 25, 50,
\* 75, 100 with health 100, healthIndex+5, healthIndex, healthIndex-10,
\* healthIndex-20, not clamped; the two fixed simulation blocks; the cluster
\* labelled with the reply's failureMode; the drift object carrying the
\* reply's driftDetected; and every field of the reply unchanged.  (A reply
\* without healthIndex has no number to project: the sums are null and the
\* copy, like label and detected for their absent sources, is absent.)
C1_DefaultFilling ==
    (RepliedWithObject /\ ReplyKeys \cap OptionalFields = {}) =>
        /\ pRes.status = 200
        /\ pRes.body.t = "object"
        /\ DOMAIN pRes.body.v = ReplyKeys \cup OptionalFields
        /\ \A k \in ReplyKeys : pRes.body.v[k] = pOutcome.payload.v[k]
        /\ pRes.body.v["longTermProjection"] =
             Arr(<< Obj([cycle |-> Num(0), health |-> Num(100)]),
                    Obj([cycle |-> Num(25), health |-> ProjectedHealth(5)]),
                    IF "healthIndex" \in ReplyKeys
                    THEN Obj([cycle |-> Num(50), health |-> pOutcome.payload.v["healthIndex"]])
                    ELSE Obj([cycle |-> Num(50)]),
                    Obj([cycle |-> Num(75), health |-> ProjectedHealth(0 - 10)]),
                    Obj([cycle |-> Num(100), health |-> ProjectedHealth(0 - 20)]) >>)
        /\ pRes.body.v["simulation"] =
             Obj([maintenanceNow   |-> Obj([riskReduction |-> Num(85),
                                            healthImprovement |-> Num(15),
                                            cost |-> Num(4500)]),
                  maintenanceLater |-> Obj([riskReduction |-> Num(10),
                                            healthImprovement |-> Num(2),
                                            cost |-> Num(28000)])])
        /\ pRes.body.v["failureCluster"] =
             (IF "failureMode" \in ReplyKeys
              THEN Obj([id |-> Str("CL-GEN"), label |-> pOutcome.payload.v["failureMode"],
                        description |-> Str("AI Detected Pattern")])
              ELSE Obj([id |-> Str("CL-GEN"), description |-> Str("AI Detected Pattern")]))
        /\ pRes.body.v["dataDrift"] =
             (IF "driftDetected" \in ReplyKeys
              THEN Obj([detected |-> pOutcome.payload.v["driftDetected"],
                        severity |-> Str("Medium"),
                        explanation |-> Str("AI analysis of input distribution.")])
              ELSE Obj([severity |-> Str("Medium"),
                        explanation |-> Str("AI analysis of input distribution.")]))

\* A fenced reply {rul, healthIndex: 5, ...} was filled: the last point of the
\* projection is 5 - 20 = -15, below the 0..100 range.
C1_Witness ==
    /\ RepliedWithObject
    /\ pOutcome.tokens = <<FenceJson, JsonTok, Fence>>
    /\ ReplyKeys = {"rul", "healthIndex", "failureMode", "driftDetected"}
    /\ pOutcome.payload.v["healthIndex"] = Num(5)
    /\ pRes.status = 200
    /\ pRes.body.v["longTermProjection"].v[5].v["health"] = Num(0 - 15)

\* C2: a reply that parses as a JSON object and includes all four optional
\* fields, whatever their values, is answered 200 with each of the four
\* exactly as the model gave it.
C2_PassThrough ==
    (RepliedWithObject /\ OptionalFields \subseteq ReplyKeys) =>
        /\ pRes.status = 200
        /\ \A k \in OptionalFields : pRes.body.v[k] = pOutcome.payload.v[k]

\* The handling of the request failed at some step: the handler threw before
\* the model was called, the model call rejected, the provider blocked the
\* text, the text was not JSON after the fences were stripped, or the JSON
\* was null.
PredictFailed ==
    /\ pPc = "done"
    /\ \/ pOutcome.kind \in {"none", "rejected", "blocked"}
       \/ /\ pOutcome.kind = "text"
          /\ \/ StripFences(pOutcome.tokens) # <<JsonTok>>
             \/ pOutcome.payload = Null

\* C3: every failed predict request is answered 500 with {error, details,
\* fallback}, fallback being {healthIndex: 50, riskLevel: "MEDIUM", action:
\* "System Error - Check Backend Logs"}; none is answered 200 and none
\* carries a field of a prediction.
C3_FailureEnvelope ==
    PredictFailed =>
        /\ pRes.status = 500
        /\ pRes.body.t = "object"
        /\ DOMAIN pRes.body.v = {"error", "details", "fallback"}
        /\ pRes.body.v["fallback"] =
             Obj([healthIndex |-> Num(50), riskLevel |-> Str("MEDIUM"),
                  action |-> Str("System Error - Check Backend Logs")])

\* The model answered with prose between fences and the request was answered 500.
C3_Witness ==
    /\ pPc = "done"
    /\ pOutcome.kind = "text"
    /\ pOutcome.tokens = <<FenceJson, Prose, Fence>>
    /\ pRes.status = 500

\* C4: no request is answered before the model has been called exactly
\* once, whatever systemInfo and inputs are (absent included).
C4_ModelCalledBeforeAnswer ==
    pRes.status # 0 => pCalls = 1

(***************************************************************************)
(* Claims about POST /api/chat                                             *)
(***************************************************************************)
\* C6: every failed chat request is answered 500 with {error, details}:
\* details is the raw message, error is "Invalid API Key" when the message
\* mentions "API key", "Response blocked by safety filters" when it mentions
\* "SAFETY" and not "API key", and "Failed to process chat message"
\* otherwise (an error without a message included); one response is sent
\* and the model is called once.
C6_FailureTaxonomy ==
    (cPc = "done" /\ cError.thrown) =>
        LET mentions(w) == cError.hasMessage /\ \E i \in 1..Len(cError.message) :
                                                    cError.message[i] = w
        IN  /\ cRes.status = 500
            /\ cRes.body.t = "object"
            /\ DOMAIN cRes.body.v \subseteq {"error", "details"}
            /\ IF cError.hasMessage
               THEN cRes.body.v["details"] = Msg(cError.message)
               ELSE "details" \notin DOMAIN cRes.body.v
            /\ mentions("API key") => cRes.body.v["error"] = Str("Invalid API Key")
            /\ (mentions("SAFETY") /\ ~mentions("API key")) =>
                   cRes.body.v["error"] = Str("Response blocked by safety filters")
            /\ (~mentions("SAFETY") /\ ~mentions("API key")) =>
                   cRes.body.v["error"] = Str("Failed to process chat message")
            /\ cSent = 1
            /\ cCalls = 1

\* An error whose message mentions both SAFETY and API key was answered.
C6_Witness ==
    /\ cPc = "done"
    /\ cError.thrown
    /\ cError.message = <<"SAFETY", "API key">>
    /\ cRes.status = 500
    /\ cRes.body.v["error"] = Str("Invalid API Key")

(***************************************************************************)
(* Claims about AuthProvider                                               *)
(***************************************************************************)
\* C7: an auth-state change that signs u in sets userRole to the role
\* setRole stored last while u was the user, whatever happened in between
\* (logouts, other users' sign-ins and setRole calls), and to "viewer" when
\* nothing was stored for u; a role stored for another uid is never the one
\* restored.
C7_RoleRestoredPerUser ==
    [][(authEvents # <<>> /\ authEvents' = Tail(authEvents) /\ Head(authEvents) # NoUid) =>
          /\ user'.id = Head(authEvents)
          /\ userRole' = IF roleLog[Head(authEvents)] # NoRole
                         THEN roleLog[Head(authEvents)]
                         ELSE "viewer"]_vars

\* u1 stored admin, u2 stored engineer, and the auth-state change that just
\* ran signed u1 in again and gave it admin back.
C7_Witness ==
    /\ authLast = "AuthStateChanged"
    /\ user.id = "u1"
    /\ userRole = "admin"
    /\ roleLog = [u \in Uids |-> IF u = "u1" THEN "admin" ELSE "engineer"]

\* C10: without a user there is no role and isAuthenticated is false.
C10_SignedOutHasNoRole ==
    user = NoUser => (userRole = NoRole /\ ~isAuthenticated)

(***************************************************************************)
(* Claims about DashboardProvider                                          *)
(***************************************************************************)
\* The names of a list of devices, in order.
Names(devs) == [i \in DOMAIN devs |-> devs[i].name]

\* C5: the step that completes the initial fetchAssets leaves devices equal
\* to the four defaults, in order, when there is no token (and then no GET
\* was issued), when the GET failed and when it returned an empty list;
\* otherwise equal to the returned assets one-to-one in server order; never
\* empty.
C5_InitialFetchFallback ==
    [][(fetchPc # "done" /\ fetchPc' = "done") =>
          /\ devices' # <<>>
          /\ ~token => gets' = 0
          /\ IF ~token \/ ~getReply.ok \/ getReply.data = <<>>
             THEN Names(devices') =
                    <<"Turbine A-11", "Gen. Control", "Field Tablet", "Engine Monitor">>
             ELSE /\ Len(devices') = Len(getReply.data)
                  /\ \A i \in 1..Len(getReply.data) :
                        /\ devices'[i].id = getReply.data[i].id
                        /\ devices'[i].name = getReply.data[i].name]_vars

\* With a token, the GET returned an empty list and the fetch completed:
\* the four defaults are on display.
C5_Witness ==
    /\ fetchPc = "done"
    /\ token
    /\ getReply = [ok |-> TRUE, data |-> <<>>]
    /\ calls = 0
    /\ Len(devices) = 4

\* C8: addDevice and removeDevice change devices only when their request
\* has succeeded: a successful POST appends one device with the id and name
\* the store returned, a successful DELETE of id removes the devices with
\* that id and keeps the order of the rest; issuing a request, the store
\* handling it, and a failed request leave devices as it was.
C8_RoundTrips ==
    [][/\ (inflight' # inflight /\ \A c \in inflight : c \in inflight' \/ c.phase = "sent")
          => devices' = devices
       /\ \A c \in inflight :
            (c.phase = "replied" /\ inflight' = inflight \ {c}) =>
               IF ~c.ok THEN devices' = devices
               ELSE IF c.op = "add"
               THEN /\ Len(devices') = Len(devices) + 1
                    /\ SubSeq(devices', 1, Len(devices)) = devices
                    /\ devices'[Len(devices')].id = c.asset.id
                    /\ devices'[Len(devices')].name = c.asset.name
               ELSE devices' = SelectSeq(devices, LAMBDA d : d.id # c.id)]_vars

\* Both calls of a run completed: a device the store named PUMP was added
\* at the end and the first default device was removed.
C8_Witness ==
    /\ fetchPc = "done"
    /\ calls = 2
    /\ inflight = {}
    /\ Names(devices) = <<"Gen. Control", "Field Tablet", "Engine Monitor", "PUMP">>

\* C9: a device added by a completed addDevice stays in devices until a
\* removeDevice for its id succeeds, in every interleaving with the initial
\* fetch.
C9_NoLostAdd ==
    kept \subseteq Ids(devices)

=============================================================================
